---- MODULE Spec2Model ----
(***************************************************************************)
(* Model of the SMA crossover event engine of src/src/sma_events.py:       *)
(* the scanner compute_sma_events, the job main with its resumption floor  *)
(* and deduplication, and the writer upsert_events over the sma_events     *)
(* table; and of the job runner of src/src/webapp.py that starts the       *)
(* services on threads.                                                    *)
(*                                                                         *)
(* Numbers.  Closing prices are small integers.  A moving average is kept  *)
(* as the exact fraction [num, den] (sum of the window over the window     *)
(* length) and a difference as an exact fraction too, so a comparison with *)
(* zero is the comparison the code makes on floats, without rounding.      *)
(* Dates are day numbers; timedelta(days = n) is the subtraction of n.     *)
(***************************************************************************)
EXTENDS Integers, Sequences, FiniteSets, TLC

VARIABLES
    prices,   \* the prices table: symbol -> rows (trade_date, close), ascending
    store,    \* the sma_events table: a set of rows
    now,      \* the database clock that stamps created_at
    job,      \* the state of each run of main(), by job id
    scan,     \* one call of compute_sma_events, row by row
    tables,   \* the tables of the database besides prices
    jobs,         \* webapp.py: the dict job_id -> job_info
    job_counter,  \* webapp.py: the counter the job ids are made from
    sys_argv,     \* sys.argv, one list for all the threads of the process
    threads,      \* the threads that run execute_job, with their locals
    environ,      \* os.environ: the names of the variables that are set
    clock,        \* the wall clock datetime.now() reads
    requests      \* the POST /services/run requests handled so far

engine == <<prices, store, now, job, scan, tables>>

web == <<jobs, job_counter, sys_argv, threads, environ, clock, requests>>

vars == <<prices, store, now, job, scan, tables,
          jobs, job_counter, sys_argv, threads, environ, clock, requests>>

(***************************************************************************)
(* The web application before its first request, webapp.py lines 91-94:    *)
(* no job, the counter at zero, sys.argv as the interpreter set it.  The   *)
(* engine's specifications keep it so.                                     *)
(***************************************************************************)
EmptyDict == [id \in {} |-> id]

OriginalArgv == <<"webapp.py">>

WebAtRest ==
    /\ jobs = EmptyDict
    /\ job_counter = 0
    /\ sys_argv = OriginalArgv
    /\ threads = << >>
    /\ environ = {}
    /\ clock = 0
    /\ requests = 0

(***************************************************************************)
(* Bounds of the model and constants of the program.                       *)
(***************************************************************************)
\* Longest frame handed to compute_sma_events in SpecScan.
MaxLen == 5

\* Most rows of one symbol in the prices table.
MaxRows == 4

\* Latest reading of the database clock in SpecConc.
MaxClock == 1

\* The pad of the resumption floor: max(long, short) + 5 days.
LookbackPad == 5

Closes == {1, 2, 3}

\* Valid (short_window, long_window) pairs the scanner is run with.
Windows == {<<1, 2>>, <<1, 3>>, <<2, 3>>, <<2, 4>>}

(***************************************************************************)
(* Optional values: None is Python's None, pandas' NaN or SQL's NULL.      *)
(***************************************************************************)
None == << >>
Some(v) == << v >>
IsSome(o) == o # None
Val(o) == o[1]

Frac(n, d) == [num |-> n, den |-> d]

Max(a, b) == IF a >= b THEN a ELSE b

RECURSIVE SumCloses(_, _, _)
SumCloses(closes, lo, hi) ==
    IF lo > hi THEN 0 ELSE Val(closes[lo]) + SumCloses(closes, lo + 1, hi)

(***************************************************************************)
(* frame["close"].rolling(window, min_periods = window).mean() at row i:   *)
(* defined when the window of the last `window` rows is complete and holds *)
(* `window` valid observations.                                            *)
(***************************************************************************)
\* Mutant of RollingMean: min_periods = 1, a window cut short by the start
\* of the series has a mean.
RollingMeanPartial(closes, window, i) ==
    LET lo == IF i >= window THEN i - window + 1 ELSE 1
    IN  IF \A j \in lo..i : IsSome(closes[j])
        THEN Some(Frac(SumCloses(closes, lo, i), i - lo + 1))
        ELSE None

\* Mutant of RollingMean: the first complete window has no mean yet.
RollingMeanLate(closes, window, i) ==
    IF i > window /\ \A j \in (i - window + 1)..i : IsSome(closes[j])
    THEN Some(Frac(SumCloses(closes, i - window + 1, i), window))
    ELSE None

RollingMean(closes, window, i) ==
    IF i >= window /\ \A j \in (i - window + 1)..i : IsSome(closes[j])
    THEN Some(Frac(SumCloses(closes, i - window + 1, i), window))
    ELSE None

(***************************************************************************)
(* frame.sort_values("trade_date"): a stable sort by trade_date.           *)
(***************************************************************************)
RECURSIVE InsertByDate(_, _)
InsertByDate(sorted, row) ==
    IF sorted = << >> THEN << row >>
    ELSE IF sorted[Len(sorted)].trade_date <= row.trade_date
         THEN Append(sorted, row)
         ELSE Append(InsertByDate(SubSeq(sorted, 1, Len(sorted) - 1), row),
                     sorted[Len(sorted)])

RECURSIVE SortByDate(_)
SortByDate(frame) ==
    IF frame = << >> THEN << >>
    ELSE InsertByDate(SortByDate(SubSeq(frame, 1, Len(frame) - 1)),
                      frame[Len(frame)])

\* Mutant of Annotate: the two rolling means take each other's window.
AnnotateSwapped(frame, short_window, long_window) ==
    LET f == SortByDate(frame)
        closes == [i \in 1..Len(f) |-> f[i].close]
    IN  [i \in 1..Len(f) |->
            [trade_date |-> f[i].trade_date,
             close      |-> f[i].close,
             short_sma  |-> RollingMean(closes, long_window, i),
             long_sma   |-> RollingMean(closes, short_window, i)]]

\* The frame after lines 156-158: sorted, with the two SMA columns.
Annotate(frame, short_window, long_window) ==
    LET f == SortByDate(frame)
        closes == [i \in 1..Len(f) |-> f[i].close]
    IN  [i \in 1..Len(f) |->
            [trade_date |-> f[i].trade_date,
             close      |-> f[i].close,
             short_sma  |-> RollingMean(closes, short_window, i),
             long_sma   |-> RollingMean(closes, long_window, i)]]

(***************************************************************************)
(* The scanner.                                                            *)
(***************************************************************************)
\* Mutant of Cross: the event types of the two branches are exchanged.
CrossSwapped(previous, diff, up, down) ==
    IF previous = None THEN << >>
    ELSE IF Val(previous).num <= 0 /\ 0 < diff.num THEN << down >>
    ELSE IF Val(previous).num >= 0 /\ 0 > diff.num THEN << up >>
    ELSE << >>

\* Mutant of Cross: strict inequalities, so a tie breaks the chain.
CrossStrict(previous, diff, up, down) ==
    IF previous = None THEN << >>
    ELSE IF Val(previous).num < 0 /\ 0 < diff.num THEN << up >>
    ELSE IF Val(previous).num > 0 /\ 0 > diff.num THEN << down >>
    ELSE << >>

\* Mutant of Cross: an absent previous difference counts as 0, so the first
\* defined point of a scan can emit.
CrossAbsentAsZero(previous, diff, up, down) ==
    LET p == IF previous = None THEN 0 ELSE Val(previous).num
    IN  IF p <= 0 /\ 0 < diff.num THEN << up >>
        ELSE IF p >= 0 /\ 0 > diff.num THEN << down >>
        ELSE << >>

\* Mutant of Cross: the sign of the previous difference is not looked at,
\* so every point above zero emits an up event and every point below a
\* down event.
CrossLevel(previous, diff, up, down) ==
    IF previous = None THEN << >>
    ELSE IF 0 < diff.num THEN << up >>
    ELSE IF 0 > diff.num THEN << down >>
    ELSE << >>

\* if previous is not None:
\*     if previous <= 0 < diff: up ... elif previous >= 0 > diff: down
Cross(previous, diff, up, down) ==
    IF previous = None THEN << >>
    ELSE IF Val(previous).num <= 0 /\ 0 < diff.num THEN << up >>
    ELSE IF Val(previous).num >= 0 /\ 0 > diff.num THEN << down >>
    ELSE << >>

\* Mutant of NextRegister: no reset, the register keeps its stale value.
NextRegisterStale(valid, diff, previous) ==
    IF valid THEN Some(diff) ELSE previous

\* previous = diff when the difference is defined, else previous = None
\* (lines 204-206, 237-239, 270-272).
NextRegister(valid, diff, previous) ==
    IF valid THEN Some(diff) ELSE None

\* The event types of the three blocks, (up, down).
ShortTypes == <<"price_cross_short_up", "price_cross_short_down">>

\* Mutant of LongTypes: the long block keeps the types of the short block
\* it was copied from.
LongTypesCopied == <<"price_cross_short_up", "price_cross_short_down">>

LongTypes == <<"price_cross_long_up", "price_cross_long_down">>

SmaTypes == <<"golden_cross", "death_cross">>

\* Mutant of Event: an undefined SMA is written as 0 instead of null.
EventZeroFilled(symbol, row, type, short_window, long_window) ==
    [symbol       |-> symbol,
     event_date   |-> row.trade_date,
     event_type   |-> type,
     short_window |-> short_window,
     long_window  |-> long_window,
     close_price  |-> row.close,
     short_sma    |-> IF row.short_sma = None THEN Some(Frac(0, 1))
                      ELSE row.short_sma,
     long_sma     |-> IF row.long_sma = None THEN Some(Frac(0, 1))
                      ELSE row.long_sma]

Event(symbol, row, type, short_window, long_window) ==
    [symbol       |-> symbol,
     event_date   |-> row.trade_date,
     event_type   |-> type,
     short_window |-> short_window,
     long_window  |-> long_window,
     close_price  |-> row.close,
     short_sma    |-> row.short_sma,
     long_sma     |-> row.long_sma]

\* Mutant of EventsOf: the three blocks are one if/elif chain, so a row
\* yields the event of the first block that fires and no other.
EventsOfFirst(types, symbol, row, short_window, long_window) ==
    [k \in 1..(IF types = << >> THEN 0 ELSE 1) |->
        Event(symbol, row, types[k], short_window, long_window)]

EventsOf(types, symbol, row, short_window, long_window) ==
    [k \in 1..Len(types) |-> Event(symbol, row, types[k], short_window, long_window)]

\* close_price - float(sma)
PriceDiff(row, sma) ==
    Frac(Val(row.close) * Val(sma).den - Val(sma).num, Val(sma).den)

\* float(short_sma) - float(long_sma)
SmaDiff(row) ==
    Frac(Val(row.short_sma).num * Val(row.long_sma).den
           - Val(row.long_sma).num * Val(row.short_sma).den,
         Val(row.short_sma).den * Val(row.long_sma).den)

ScanStart ==
    [previous_short_diff |-> None,
     previous_long_diff  |-> None,
     previous_sma_diff   |-> None,
     events              |-> << >>]

\* One iteration of the loop over frame.iterrows(), lines 166-272.
ScanRow(st, row, symbol, short_window, long_window) ==
    LET short_valid == IsSome(row.short_sma)
        long_valid  == IsSome(row.long_sma)
        short_diff  == PriceDiff(row, row.short_sma)
        long_diff   == PriceDiff(row, row.long_sma)
        sma_diff    == SmaDiff(row)
        shortEv == IF short_valid
                   THEN Cross(st.previous_short_diff, short_diff,
                              ShortTypes[1], ShortTypes[2])
                   ELSE << >>
        longEv  == IF long_valid
                   THEN Cross(st.previous_long_diff, long_diff,
                              LongTypes[1], LongTypes[2])
                   ELSE << >>
        smaEv   == IF short_valid /\ long_valid
                   THEN Cross(st.previous_sma_diff, sma_diff,
                              SmaTypes[1], SmaTypes[2])
                   ELSE << >>
    IN  [previous_short_diff |->
            NextRegister(short_valid, short_diff, st.previous_short_diff),
         previous_long_diff |->
            NextRegister(long_valid, long_diff, st.previous_long_diff),
         previous_sma_diff |->
            NextRegister(short_valid /\ long_valid, sma_diff,
                         st.previous_sma_diff),
         events |->
            st.events
              \o EventsOf(shortEv \o longEv \o smaEv, symbol, row,
                          short_window, long_window)]

RECURSIVE ScanRows(_, _, _, _, _, _)
ScanRows(st, rows, i, symbol, short_window, long_window) ==
    IF i > Len(rows) THEN st
    ELSE ScanRows(ScanRow(st, rows[i], symbol, short_window, long_window),
                  rows, i + 1, symbol, short_window, long_window)

compute_sma_events(frame, symbol, short_window, long_window) ==
    IF frame = << >> THEN << >>
    ELSE ScanRows(ScanStart, Annotate(frame, short_window, long_window), 1,
                  symbol, short_window, long_window).events

(***************************************************************************)
(* SpecScan: one call of compute_sma_events, stepped row by row.  The      *)
(* frame is any series of at most MaxLen rows with strictly increasing     *)
(* trade dates whose closes are valid or NaN.                              *)
(***************************************************************************)
OptCloses == {None} \cup {Some(c) : c \in Closes}

SymbolOrder == <<"AAA", "BBB">>

Symbols == {SymbolOrder[n] : n \in 1..Len(SymbolOrder)}

FramesOfLen(n) ==
    {[i \in 1..n |-> [trade_date |-> i, close |-> cs[i]]] : cs \in [1..n -> OptCloses]}

Frames == UNION {FramesOfLen(n) : n \in 0..MaxLen}

\* The worked example: seven closes, scanned with the windows 3 and 5.
ExampleCloses == <<10, 10, 10, 10, 10, 12, 14>>

ExampleWindows == <<3, 5>>

ExampleFrame ==
    [i \in 1..Len(ExampleCloses) |->
        [trade_date |-> i, close |-> Some(ExampleCloses[i])]]

\* The calls of compute_sma_events: any frame with any of the windows, and
\* the worked example.
ScanInputs == (Frames \X Windows) \cup {<<ExampleFrame, ExampleWindows>>}

NoScan ==
    [pc |-> "off", frame |-> << >>, symbol |-> "AAA",
     short_window |-> 1, long_window |-> 2, rows |-> << >>, idx |-> 0,
     previous_short_diff |-> None, previous_long_diff |-> None,
     previous_sma_diff |-> None, events |-> << >>]

IdleJob ==
    [pc |-> "idle", short_window |-> 0, long_window |-> 0, chunk_size |-> 0,
     symbols |-> << >>, i |-> 0,
     start_date |-> None, frame |-> << >>,
     existing_events |-> {}, latest_event_dates |-> [s \in Symbols |-> None],
     total_inserted |-> 0,
     new_events |-> << >>, batches |-> << >>, k |-> 0, pending |-> << >>,
     inserted |-> 0,
     \* history of the run, read by the properties only
     loaded |-> {}, candidates |-> << >>, passed |-> << >>, repeat |-> FALSE]


Jobs == {"j1", "j2"}

InitScan ==
    /\ prices = [s \in Symbols |-> << >>]
    /\ store = {}
    /\ now = 0
    /\ job = [j \in Jobs |-> IdleJob]
    /\ tables = {}
    /\ WebAtRest
    /\ \E call \in ScanInputs :
         scan = [NoScan EXCEPT !.pc = "call", !.frame = call[1],
                               !.short_window = call[2][1],
                               !.long_window = call[2][2]]

\* Lines 153-164: the empty frame returns at once; otherwise the frame is
\* sorted and annotated and the three registers start absent.
ScanCall ==
    /\ scan.pc = "call"
    /\ IF scan.frame = << >>
       THEN scan' = [scan EXCEPT !.pc = "return"]
       ELSE scan' = [scan EXCEPT
                        !.pc = "loop",
                        !.rows = Annotate(scan.frame, scan.short_window,
                                          scan.long_window)]
    /\ UNCHANGED <<prices, store, now, job, tables, web>>

ScanState ==
    [previous_short_diff |-> scan.previous_short_diff,
     previous_long_diff  |-> scan.previous_long_diff,
     previous_sma_diff   |-> scan.previous_sma_diff,
     events              |-> scan.events]

\* Lines 166-272: the loop body on the next row.
ScanIterate ==
    /\ scan.pc = "loop"
    /\ scan.idx < Len(scan.rows)
    /\ LET st == ScanRow(ScanState, scan.rows[scan.idx + 1], scan.symbol,
                         scan.short_window, scan.long_window)
       IN  scan' = [scan EXCEPT
                       !.idx = scan.idx + 1,
                       !.previous_short_diff = st.previous_short_diff,
                       !.previous_long_diff = st.previous_long_diff,
                       !.previous_sma_diff = st.previous_sma_diff,
                       !.events = st.events]
    /\ UNCHANGED <<prices, store, now, job, tables, web>>

\* Line 274.
ScanReturn ==
    /\ scan.pc = "loop"
    /\ scan.idx = Len(scan.rows)
    /\ scan' = [scan EXCEPT !.pc = "return"]
    /\ UNCHANGED <<prices, store, now, job, tables, web>>

NextScan == ScanCall \/ ScanIterate \/ ScanReturn

SpecScan == InitScan /\ [][NextScan]_vars

(***************************************************************************)
(* The sma_events table and the writer.                                    *)
(***************************************************************************)
\* Mutant of Key: the windows are part of the key.
KeyWithWindows(r) ==
    <<r.symbol, r.event_date, r.event_type, r.short_window, r.long_window>>

\* The primary key (symbol, event_date, event_type), lines 74-76.
Key(r) == <<r.symbol, r.event_date, r.event_type>>

KeySet(rows) == {Key(r) : r \in rows}

SeqKeys(rows) == {Key(rows[i]) : i \in 1..Len(rows)}

\* A stored row: the event's columns and created_at (server_default now()).
StoredRow(e, ts) ==
    [symbol       |-> e.symbol,
     event_date   |-> e.event_date,
     event_type   |-> e.event_type,
     short_window |-> e.short_window,
     long_window  |-> e.long_window,
     close_price  |-> e.close_price,
     short_sma    |-> e.short_sma,
     long_sma     |-> e.long_sma,
     created_at   |-> ts]

\* Mutant of UpdateColumns: created_at is not skipped and takes the new
\* row's timestamp.
UpdateColumnsAll(old, e) == e

\* ON DUPLICATE KEY UPDATE of lines 296-301: every column that is neither
\* a primary-key column nor created_at takes the inserted value.
UpdateColumns(old, e) ==
    [old EXCEPT !.short_window = e.short_window,
                !.long_window  = e.long_window,
                !.close_price  = e.close_price,
                !.short_sma    = e.short_sma,
                !.long_sma     = e.long_sma]

\* Mutant of UpsertRow: a plain INSERT into a table without the key
\* constraint.
UpsertRowAppend(table, e) == table \cup {e}

\* INSERT ... ON DUPLICATE KEY UPDATE of one row, stamped ts when inserted.
UpsertRow(table, e) ==
    IF \E old \in table : Key(old) = Key(e)
    THEN {IF Key(old) = Key(e) THEN UpdateColumns(old, e) ELSE old : old \in table}
    ELSE table \cup {e}

RECURSIVE UpsertRows(_, _, _)
UpsertRows(table, rows, i) ==
    IF i > Len(rows) THEN table
    ELSE UpsertRows(UpsertRow(table, rows[i]), rows, i + 1)

\* chunked(iterable, size), lines 277-285: the chunks in order, the last
\* one possibly shorter.
RECURSIVE ChunkLoop(_, _, _, _, _)
ChunkLoop(items, size, i, chunk, out) ==
    IF i > Len(items)
    THEN IF chunk # << >> THEN Append(out, chunk) ELSE out
    ELSE LET c == Append(chunk, items[i])
         IN  IF Len(c) >= size
             THEN ChunkLoop(items, size, i + 1, << >>, Append(out, c))
             ELSE ChunkLoop(items, size, i + 1, c, out)

chunked(items, size) == ChunkLoop(items, size, 1, << >>, << >>)

\* Mutant of Rollback: every executed batch was committed on its own.
RollbackKeepsChunks(table, pending) == UpsertRows(table, pending, 1)

\* What the table holds when the `with engine.begin()` block of line 293
\* is left by an exception (or the connection is lost): the transaction is
\* rolled back and none of its statements is kept.
Rollback(table, pending) == table

\* Mutant of Commit: the symbol's stored events are deleted before the new
\* ones are written.
CommitRefresh(table, pending) ==
    LET kept == {r \in table :
                   \A n \in 1..Len(pending) : pending[n].symbol # r.symbol}
    IN  UpsertRows(kept, pending, 1)

\* What the table holds when the block is left normally: the statements of
\* the transaction, in order.
Commit(table, pending) == UpsertRows(table, pending, 1)

(***************************************************************************)
(* The readers.                                                            *)
(***************************************************************************)
\* fetch_symbols, lines 99-103: the distinct symbols of the prices table,
\* in the order of the primary-key index the DISTINCT is read from.
fetch_symbols(tbl) ==
    LET Present(s) == tbl[s] # << >>
    IN  SelectSeq(SymbolOrder, Present)

\* Mutant of MaxOf: the comparison of lines 116 and 359 is reversed and the
\* earliest date is kept.
MinOf(S) == CHOOSE m \in S : \A x \in S : m <= x

\* load_existing_events, lines 106-118.
MaxOf(S) == CHOOSE m \in S : \A x \in S : x <= m

load_existing_events(table) ==
    [events |-> KeySet(table),
     latest_by_symbol |->
        [s \in Symbols |->
            LET ds == {r.event_date : r \in {x \in table : x.symbol = s}}
            IN  IF ds = {} THEN None ELSE Some(MaxOf(ds))]]

\* Mutant of fetch_price_history: the query has no WHERE symbol = ... and
\* returns the rows of the first symbol of the table.
fetch_price_history_any(tbl, symbol, start_date) ==
    LET IsIn(row) == /\ (IsSome(start_date) => row.trade_date >= Val(start_date))
                     /\ IsSome(row.close)
    IN  SelectSeq(tbl[SymbolOrder[1]], IsIn)

\* fetch_price_history, lines 121-144: the symbol's rows in ascending
\* trade_date, from start_date on when one is given, NULL closes dropped.
fetch_price_history(tbl, symbol, start_date) ==
    LET IsIn(row) == /\ (IsSome(start_date) => row.trade_date >= Val(start_date))
                     /\ IsSome(row.close)
    IN  SelectSeq(tbl[symbol], IsIn)

\* Mutant of start_date_filter: the read resumes on the day after the
\* latest event date.
start_date_next_day(latest_event_date, short_window, long_window) ==
    IF IsSome(latest_event_date)
    THEN Some(Val(latest_event_date) + 1)
    ELSE None

\* Lines 335-339: the start date of a symbol's read.
start_date_filter(latest_event_date, short_window, long_window) ==
    IF IsSome(latest_event_date)
    THEN Some(Val(latest_event_date)
                - (Max(long_window, short_window) + LookbackPad))
    ELSE None

\* Mutant of NewEvents: the key compared leaves out the event type.
NewEventsByDate(events, existing_events) ==
    LET IsNew(e) == \A k \in existing_events :
                       ~(k[1] = e.symbol /\ k[2] = e.event_date)
    IN  SelectSeq(events, IsNew)

\* Mutant of NewEvents: no filter, every candidate is written again.
NewEventsUnfiltered(events, existing_events) == events

\* Lines 344-348.
NewEvents(events, existing_events) ==
    LET IsNew(e) == Key(e) \notin existing_events
    IN  SelectSeq(events, IsNew)

(***************************************************************************)
(* The job: main(), lines 306-364.                                         *)
(***************************************************************************)
\* Windows and chunk sizes the job is started with.
RunWindows == {<<1, 2>>, <<2, 3>>}
BadWindows == {<<0, 2>>, <<2, 2>>, <<3, 2>>, <<1, 0>>}

\* A gap between two trade dates longer than any lookback of RunWindows.
LongGap == 9

AtRest(j) == job[j].pc = "idle"

\* The bars price ingestion may add on a day: the gap in days since the
\* last trade date, the close of AAA and the close of BBB.  The symbols
\* share the trading calendar; BBB closes opposite to AAA, and has a bar
\* without a close on the day after a long gap.
DayChoices ==
    {<<1, Some(1), Some(2)>>, <<1, Some(2), Some(1)>>, <<LongGap, Some(2), None>>}

\* The command lines the job is started with: (windows, chunk_size).
Args == {<< <<1, 2>>, 1 >>, << <<2, 3>>, 2 >>} \cup (BadWindows \X {1})

\* Price ingestion (external, src/src/prices.py): the bars of a later
\* trade date are added for every symbol, in one transaction.
AppendDay(gap, closeA, closeB) ==
    /\ \A j \in Jobs : AtRest(j)
    /\ Len(prices["AAA"]) < MaxRows
    /\ LET last == IF prices["AAA"] = << >> THEN 0
                   ELSE prices["AAA"][Len(prices["AAA"])].trade_date
           bar(c) == [trade_date |-> last + gap, close |-> c]
       IN  prices' = [prices EXCEPT !["AAA"] = Append(@, bar(closeA)),
                                    !["BBB"] = Append(@, bar(closeB))]
    /\ UNCHANGED <<store, now, job, scan, tables, web>>

\* Mutant of Invalid: only the signs of the windows are checked.
InvalidSigns(w) == w[1] <= 0 \/ w[2] <= 0

\* Lines 310-313: the windows main() rejects.
Invalid(w) == w[1] <= 0 \/ w[2] <= 0 \/ w[1] >= w[2]

\* create_tables, lines 68-96: sma_events is created when it is missing.
create_tables(tbls) == tbls \cup {"sma_events"}

\* Lines 307-324: the arguments are parsed and validated, the tables are
\* created, the symbols are read, in the order the query returns them, and
\* the existing events are loaded.
BeginWith(j, w, cs, repeat, order) ==
    IF Invalid(w)
    THEN /\ job' = [job EXCEPT ![j] = [IdleJob EXCEPT
                       !.pc = "error", !.short_window = w[1],
                       !.long_window = w[2], !.chunk_size = cs]]
         /\ tables' = tables
    ELSE LET symbols == order
             ld == load_existing_events(store)
         IN  /\ tables' = create_tables(tables)
             /\ job' = [job EXCEPT ![j] =
                   IF symbols = << >>
                   THEN [IdleJob EXCEPT
                           !.pc = "done", !.short_window = w[1],
                           !.long_window = w[2], !.chunk_size = cs,
                           !.repeat = repeat]
                   ELSE [IdleJob EXCEPT
                           !.pc = "loop", !.short_window = w[1],
                           !.long_window = w[2], !.chunk_size = cs,
                           !.symbols = symbols, !.i = 1,
                           !.existing_events = ld.events,
                           !.latest_event_dates = ld.latest_by_symbol,
                           !.loaded = ld.events,
                           !.repeat = repeat]]

Begin(j, w, cs, repeat) == BeginWith(j, w, cs, repeat, fetch_symbols(prices))

\* The job is started from the command line.
Start(j, w, cs) ==
    /\ AtRest(j)
    /\ Begin(j, w, cs, FALSE)
    /\ UNCHANGED <<prices, store, now, scan, web>>

\* The job is started again right after it returned, with the same
\* arguments and the prices unchanged.
Restart(j) ==
    /\ job[j].pc = "done"
    /\ Begin(j, <<job[j].short_window, job[j].long_window>>,
             job[j].chunk_size, TRUE)
    /\ UNCHANGED <<prices, store, now, scan, web>>

\* Lines 334-351: the next symbol is read from its floor, scanned and
\* filtered; with no new event the loop goes on to the next symbol.
ProcessSymbol(j) ==
    /\ job[j].pc = "loop"
    /\ job[j].i <= Len(job[j].symbols)
    /\ LET r == job[j]
           symbol == r.symbols[r.i]
           start == start_date_filter(r.latest_event_dates[symbol],
                                      r.short_window, r.long_window)
           frame == fetch_price_history(prices, symbol, start)
           events == compute_sma_events(frame, symbol, r.short_window,
                                        r.long_window)
           new_events == NewEvents(events, r.existing_events)
       IN  job' = [job EXCEPT ![j] =
                     IF new_events = << >>
                     THEN [r EXCEPT !.i = r.i + 1, !.candidates = events,
                                    !.start_date = start, !.frame = frame,
                                    !.new_events = << >>]
                     ELSE [r EXCEPT !.pc = "upsert",
                                    !.start_date = start, !.frame = frame,
                                    !.candidates = events,
                                    !.new_events = new_events,
                                    !.passed = r.passed \o new_events,
                                    !.batches = chunked(new_events, r.chunk_size),
                                    !.k = 0, !.pending = << >>,
                                    !.inserted = 0]]
    /\ UNCHANGED <<prices, store, now, scan, tables, web>>

\* Lines 294-302: the next batch is executed in the open transaction; the
\* server reads its clock, t, for the created_at default (line 82).
UpsertChunk(j, t) ==
    /\ job[j].pc = "upsert"
    /\ job[j].k < Len(job[j].batches)
    /\ t >= now
    /\ now' = t
    /\ LET r == job[j]
           batch == r.batches[r.k + 1]
       IN  job' = [job EXCEPT ![j] =
                     [r EXCEPT !.k = r.k + 1,
                               !.pending = r.pending \o
                                  [n \in 1..Len(batch) |-> StoredRow(batch[n], t)],
                               !.inserted = r.inserted + Len(batch)]]
    /\ UNCHANGED <<prices, store, scan, tables, web>>

\* Lines 303 and 353-362: the transaction commits, upsert_events returns
\* and the in-memory index takes the new events.
UpsertCommit(j) ==
    /\ job[j].pc = "upsert"
    /\ job[j].k = Len(job[j].batches)
    /\ store' = Commit(store, job[j].pending)
    /\ LET r == job[j]
           symbol == r.symbols[r.i]
           ds == {r.new_events[n].event_date : n \in 1..Len(r.new_events)}
           cur == r.latest_event_dates[symbol]
       IN  job' = [job EXCEPT ![j] =
                     [r EXCEPT !.pc = "loop", !.i = r.i + 1,
                               !.total_inserted = r.total_inserted + r.inserted,
                               !.existing_events = r.existing_events
                                                     \cup SeqKeys(r.new_events),
                               !.latest_event_dates[symbol] =
                                   IF cur = None \/ MaxOf(ds) > Val(cur)
                                   THEN Some(MaxOf(ds)) ELSE cur]]
    /\ UNCHANGED <<prices, now, scan, tables, web>>

\* A statement of the transaction raises, or the process dies in it: the
\* transaction is rolled back and nothing in main() catches the exception.
UpsertFail(j) ==
    /\ job[j].pc = "upsert"
    /\ job[j].k < Len(job[j].batches)
    /\ store' = Rollback(store, job[j].pending)
    /\ job' = [job EXCEPT ![j] = [job[j] EXCEPT !.pc = "failed", !.pending = << >>]]
    /\ UNCHANGED <<prices, now, scan, tables, web>>

\* Line 341: the read of the next symbol's price history raises (the
\* connection is lost, the query fails).  The loop of lines 334-362 has no
\* handler, so the exception leaves main() and the run ends there.
ReadFail(j) ==
    /\ job[j].pc = "loop"
    /\ job[j].i <= Len(job[j].symbols)
    /\ job' = [job EXCEPT ![j] = [job[j] EXCEPT !.pc = "read_failed"]]
    /\ UNCHANGED <<prices, store, now, scan, tables, web>>

\* Line 364: every symbol was processed.
Finish(j) ==
    /\ job[j].pc = "loop"
    /\ job[j].i > Len(job[j].symbols)
    /\ job' = [job EXCEPT ![j] = [job[j] EXCEPT !.pc = "done"]]
    /\ UNCHANGED <<prices, store, now, scan, tables, web>>

\* The process of the run ends: by the return of main(), or by the
\* exception that left it.
Exit(j) ==
    /\ job[j].pc \in {"done", "error", "failed", "read_failed"}
    /\ job' = [job EXCEPT ![j] = IdleJob]
    /\ UNCHANGED <<prices, store, now, scan, tables, web>>

Init ==
    /\ prices = [s \in Symbols |-> << >>]
    /\ store = {}
    /\ now = 0
    /\ job = [j \in Jobs |-> IdleJob]
    /\ scan = NoScan
    /\ tables = {}
    /\ WebAtRest

Next ==
    \/ \E d \in DayChoices : AppendDay(d[1], d[2], d[3])
    \/ \E a \in Args : Start("j1", a[1], a[2])
    \/ Restart("j1")
    \/ ProcessSymbol("j1")
    \/ UpsertChunk("j1", now)
    \/ UpsertCommit("j1")
    \/ UpsertFail("j1")
    \/ ReadFail("j1")
    \/ Finish("j1")
    \/ Exit("j1")

Spec == Init /\ [][Next]_vars

(***************************************************************************)
(* Properties of the scanner, over SpecScan.                               *)
(***************************************************************************)
Diffs == {"short", "long", "sma"}

UpType(d) ==
    CASE d = "short" -> "price_cross_short_up"
      [] d = "long"  -> "price_cross_long_up"
      [] d = "sma"   -> "golden_cross"

DownType(d) ==
    CASE d = "short" -> "price_cross_short_down"
      [] d = "long"  -> "price_cross_long_down"
      [] d = "sma"   -> "death_cross"

\* Whether difference d is defined at an annotated row.
Defined(row, d) ==
    CASE d = "short" -> IsSome(row.short_sma)
      [] d = "long"  -> IsSome(row.long_sma)
      [] d = "sma"   -> IsSome(row.short_sma) /\ IsSome(row.long_sma)

\* The sign of difference d at a row where it is defined: -1, 0 or 1.
Sgn(n) == IF n > 0 THEN 1 ELSE IF n < 0 THEN -1 ELSE 0

SignAt(row, d) ==
    CASE d = "short" ->
           Sgn(Val(row.close) * Val(row.short_sma).den - Val(row.short_sma).num)
      [] d = "long" ->
           Sgn(Val(row.close) * Val(row.long_sma).den - Val(row.long_sma).num)
      [] d = "sma" ->
           Sgn(Val(row.short_sma).num * Val(row.long_sma).den
                 - Val(row.long_sma).num * Val(row.short_sma).den)

\* How many events of a type the scan has emitted for a trade date.
Emitted(type, date) ==
    Cardinality({n \in 1..Len(scan.events) :
                    /\ scan.events[n].event_type = type
                    /\ scan.events[n].event_date = date})

Scanning == scan.pc \in {"loop", "return"}

\* C4: at a scanned point where a difference and the difference of the
\* point before it are both defined, the up event of that difference is
\* emitted if and only if prev_diff <= 0 and diff > 0, the down event if
\* and only if prev_diff >= 0 and diff < 0, and nothing else for it.
C4_CrossRule ==
    Scanning =>
      \A i \in 2..scan.idx : \A d \in Diffs :
        LET row  == scan.rows[i]
            prev == scan.rows[i - 1]
        IN  (Defined(row, d) /\ Defined(prev, d)) =>
              /\ Emitted(UpType(d), row.trade_date) =
                   (IF SignAt(prev, d) <= 0 /\ SignAt(row, d) > 0 THEN 1 ELSE 0)
              /\ Emitted(DownType(d), row.trade_date) =
                   (IF SignAt(prev, d) >= 0 /\ SignAt(row, d) < 0 THEN 1 ELSE 0)

\* A finished scan that emitted an up event, a down event, and passed a
\* point with both differences defined that emitted neither.
C4_Witness ==
    /\ scan.pc = "return"
    /\ \E i, k, m \in 2..scan.idx :
         /\ Emitted("golden_cross", scan.rows[i].trade_date) = 1
         /\ Emitted("death_cross", scan.rows[k].trade_date) = 1
         /\ Defined(scan.rows[m], "sma") /\ Defined(scan.rows[m - 1], "sma")
         /\ Emitted("golden_cross", scan.rows[m].trade_date) = 0
         /\ Emitted("death_cross", scan.rows[m].trade_date) = 0

\* C5: a point whose difference is exactly 0 emits no event for that
\* difference, and the point after it emits exactly one up event when its
\* difference is positive, exactly one down event when it is negative.
C5_TieNeutral ==
    Scanning =>
      \A i \in 1..scan.idx : \A d \in Diffs :
        LET row == scan.rows[i]
        IN  (Defined(row, d) /\ SignAt(row, d) = 0) =>
              /\ Emitted(UpType(d), row.trade_date) = 0
              /\ Emitted(DownType(d), row.trade_date) = 0
              /\ (i < scan.idx /\ Defined(scan.rows[i + 1], d)) =>
                   LET next == scan.rows[i + 1]
                   IN  /\ SignAt(next, d) > 0 =>
                             /\ Emitted(UpType(d), next.trade_date) = 1
                             /\ Emitted(DownType(d), next.trade_date) = 0
                       /\ SignAt(next, d) < 0 =>
                             /\ Emitted(DownType(d), next.trade_date) = 1
                             /\ Emitted(UpType(d), next.trade_date) = 0

\* close == short_sma on day T, close > short_sma on day T+1, both scanned.
C5_Witness ==
    /\ Scanning
    /\ \E i \in 1..(scan.idx - 1) :
         /\ Defined(scan.rows[i], "short") /\ SignAt(scan.rows[i], "short") = 0
         /\ Defined(scan.rows[i + 1], "short")
         /\ SignAt(scan.rows[i + 1], "short") > 0
         /\ Emitted("price_cross_short_up", scan.rows[i + 1].trade_date) = 1

\* The previous register of a difference.
Register(d) ==
    CASE d = "short" -> scan.previous_short_diff
      [] d = "long"  -> scan.previous_long_diff
      [] d = "sma"   -> scan.previous_sma_diff

\* C6: after a point where a difference is undefined its previous register
\* is absent, and the first point at which the difference is defined again
\* (or for the first time) emits no event for it.
C6_NoCrossOverGap ==
    Scanning =>
      /\ \A d \in Diffs :
           (scan.idx >= 1 /\ ~Defined(scan.rows[scan.idx], d)) => Register(d) = None
      /\ \A i \in 1..scan.idx : \A d \in Diffs :
           LET row == scan.rows[i]
           IN  (Defined(row, d) /\ (i = 1 \/ ~Defined(scan.rows[i - 1], d))) =>
                 /\ Emitted(UpType(d), row.trade_date) = 0
                 /\ Emitted(DownType(d), row.trade_date) = 0

\* A difference defined and negative, then undefined, then defined again
\* and positive, all scanned.
C6_Witness ==
    /\ Scanning
    /\ \E d \in Diffs : \E i, k \in 1..scan.idx :
         /\ i + 1 < k
         /\ Defined(scan.rows[i], d) /\ SignAt(scan.rows[i], d) < 0
         /\ \A m \in (i + 1)..(k - 1) : ~Defined(scan.rows[m], d)
         /\ Defined(scan.rows[k], d) /\ SignAt(scan.rows[k], d) > 0

\* The number of valid closes of the frame of the call.
ValidCloses == Cardinality({n \in 1..Len(scan.frame) : scan.frame[n].close # None})

\* C15: a call returns no event for an empty frame and for a frame with
\* fewer than short_window valid closes; for a frame with fewer than
\* long_window valid closes no row has a long_sma and every event returned
\* is a price_cross_short_up or a price_cross_short_down.
C15_WindowBoundary ==
    scan.pc = "return" =>
      /\ scan.frame = << >> => scan.events = << >>
      /\ ValidCloses < scan.short_window => scan.events = << >>
      /\ ValidCloses < scan.long_window =>
           /\ \A i \in 1..Len(scan.rows) : scan.rows[i].long_sma = None
           /\ \A n \in 1..Len(scan.events) :
                scan.events[n].event_type
                  \in {"price_cross_short_up", "price_cross_short_down"}

\* A call on a frame with at least short_window and fewer than long_window
\* valid closes has returned an event.
C15_Witness ==
    /\ scan.pc = "return"
    /\ ValidCloses >= scan.short_window
    /\ ValidCloses < scan.long_window
    /\ scan.events # << >>

\* The events the scan has emitted for a trade date.
EventsOn(date) ==
    {n \in 1..Len(scan.events) : scan.events[n].event_date = date}

\* Whether difference d crosses up at row i of the scan.
CrossesUp(i, d) ==
    /\ i >= 2
    /\ Defined(scan.rows[i], d) /\ Defined(scan.rows[i - 1], d)
    /\ SignAt(scan.rows[i - 1], d) <= 0
    /\ SignAt(scan.rows[i], d) > 0

\* C16: a scanned date has between 0 and 3 events, at most one for each of
\* the three differences; and a date on which the price crosses the short
\* SMA up and the short SMA crosses the long SMA up has both a
\* price_cross_short_up and a golden_cross.
C16_MultiEventDay ==
    Scanning =>
      \A i \in 1..scan.idx :
        LET date == scan.rows[i].trade_date
        IN  /\ Cardinality(EventsOn(date)) <= 3
            /\ Cardinality(EventsOn(date)) =
                 Emitted("price_cross_short_up", date)
                   + Emitted("price_cross_short_down", date)
                   + Emitted("price_cross_long_up", date)
                   + Emitted("price_cross_long_down", date)
                   + Emitted("golden_cross", date)
                   + Emitted("death_cross", date)
            /\ \A d \in Diffs :
                 Emitted(UpType(d), date) + Emitted(DownType(d), date) <= 1
            /\ (CrossesUp(i, "short") /\ CrossesUp(i, "sma")) =>
                 /\ Emitted("price_cross_short_up", date) = 1
                 /\ Emitted("golden_cross", date) = 1

\* A scan with a date that has both a price_cross_short_up and a
\* golden_cross, a date with three events and a scanned date with none.
C16_Witness ==
    /\ Scanning
    /\ \E i, k, m \in 1..scan.idx :
         /\ CrossesUp(i, "short") /\ CrossesUp(i, "sma")
         /\ Emitted("price_cross_short_up", scan.rows[i].trade_date) = 1
         /\ Emitted("golden_cross", scan.rows[i].trade_date) = 1
         /\ Cardinality(EventsOn(scan.rows[k].trade_date)) = 3
         /\ Cardinality(EventsOn(scan.rows[m].trade_date)) = 0

\* Whether the scan is the one of closes 10, 10, 10, 10, 10, 12, 14 with
\* short_window 3 and long_window 5, past the annotation of the frame.
ScanningExample ==
    /\ Scanning
    /\ scan.short_window = 3
    /\ scan.long_window = 5
    /\ [i \in 1..Len(scan.frame) |-> scan.frame[i].close]
         = <<Some(10), Some(10), Some(10), Some(10), Some(10), Some(12), Some(14)>>

\* Whether an optional average is defined and equal to the integer v.
IsValue(sma, v) == sma # None /\ Val(sma).num = v * Val(sma).den

\* C17: in the scan of closes 10, 10, 10, 10, 10, 12, 14 with the windows
\* 3 and 5, short_sma is undefined at indices 0 and 1 and is 10 at index 2,
\* long_sma is undefined at indices 0 to 3 and is 10 at index 4, no event
\* has the date of an index from 0 to 4, and index 5, where the short
\* difference is positive after a difference of 0 at index 4, has one
\* price_cross_short_up once it is scanned.  (Row i + 1 is index i.)
C17_Example ==
    ScanningExample =>
      /\ \A i \in 1..2 : scan.rows[i].short_sma = None
      /\ IsValue(scan.rows[3].short_sma, 10)
      /\ \A i \in 1..4 : scan.rows[i].long_sma = None
      /\ IsValue(scan.rows[5].long_sma, 10)
      /\ \A i \in 1..5 : EventsOn(scan.rows[i].trade_date) = {}
      /\ SignAt(scan.rows[5], "short") = 0
      /\ SignAt(scan.rows[6], "short") > 0
      /\ scan.idx >= 6 =>
           Emitted("price_cross_short_up", scan.rows[6].trade_date) = 1

\* The scan of the example has returned, with its price_cross_short_up.
C17_Witness ==
    /\ ScanningExample
    /\ scan.pc = "return"
    /\ scan.idx = 7
    /\ Emitted("price_cross_short_up", scan.rows[6].trade_date) = 1

\* The scanned row an event was emitted at.
RowOf(e) ==
    CHOOSE i \in 1..scan.idx : scan.rows[i].trade_date = e.event_date

\* C21: an event has the SMA of the difference that fired (both SMAs for a
\* golden_cross or death_cross), and each SMA field of the event is the SMA
\* of its row: null exactly when that SMA is undefined there.
C21_SmaFields ==
    Scanning =>
      \A n \in 1..Len(scan.events) :
        LET e == scan.events[n]
            row == scan.rows[RowOf(e)]
        IN  /\ e.event_type \in {ShortTypes[1], ShortTypes[2]} => e.short_sma # None
            /\ e.event_type \in {LongTypes[1], LongTypes[2]} => e.long_sma # None
            /\ e.event_type \in {SmaTypes[1], SmaTypes[2]} =>
                 e.short_sma # None /\ e.long_sma # None
            /\ (e.short_sma = None) <=> (row.short_sma = None)
            /\ (e.long_sma = None) <=> (row.long_sma = None)
            /\ e.short_sma = row.short_sma
            /\ e.long_sma = row.long_sma

\* A scan returned a price_cross_short event without a long_sma and one
\* with a long_sma.
C21_Witness ==
    /\ scan.pc = "return"
    /\ \E a, b \in 1..Len(scan.events) :
         /\ scan.events[a].event_type \in {ShortTypes[1], ShortTypes[2]}
         /\ scan.events[a].long_sma = None
         /\ scan.events[b].event_type \in {ShortTypes[1], ShortTypes[2]}
         /\ scan.events[b].long_sma # None

\* The rows of the frame of the call with trade_date at or after a floor.
Suffix(floor) ==
    LET IsIn(row) == row.trade_date >= floor
    IN  SelectSeq(scan.frame, IsIn)

\* The events of a scan of the suffix of the frame from a floor.
SuffixEvents(floor) ==
    compute_sma_events(Suffix(floor), scan.symbol, scan.short_window,
                       scan.long_window)

\* C25: for every floor, each event of the scan of the suffix of a series
\* from the floor has the key of an event of the scan of the whole series.
C25_TruncationAddsNothing ==
    scan.pc = "return" =>
      \A floor \in 0..(Len(scan.frame) + 1) :
        SeqKeys(SuffixEvents(floor)) \subseteq SeqKeys(scan.events)

\* A floor inside the series whose suffix scan has an event and misses an
\* event of the whole scan dated at or after the floor.
C25_Witness ==
    /\ scan.pc = "return"
    /\ \E floor \in 2..Len(scan.frame) :
         /\ SuffixEvents(floor) # << >>
         /\ \E n \in 1..Len(scan.events) :
              /\ scan.events[n].event_date >= floor
              /\ Key(scan.events[n]) \notin SeqKeys(SuffixEvents(floor))

\* C26: in a scan with short_window < long_window, a row with a long_sma
\* has a short_sma; every price_cross_long_up, price_cross_long_down,
\* golden_cross and death_cross has both SMA fields; and previous_sma_diff
\* is present exactly when previous_long_diff is.
C26_LongImpliesShort ==
    (Scanning /\ scan.short_window < scan.long_window) =>
      /\ \A i \in 1..Len(scan.rows) :
           scan.rows[i].long_sma # None => scan.rows[i].short_sma # None
      /\ \A n \in 1..Len(scan.events) :
           scan.events[n].event_type
               \in {"price_cross_long_up", "price_cross_long_down",
                    "golden_cross", "death_cross"}
             => /\ scan.events[n].short_sma # None
                /\ scan.events[n].long_sma # None
      /\ (scan.previous_sma_diff = None) <=> (scan.previous_long_diff = None)

\* A scan is past a row with a short_sma and no long_sma, both registers
\* are present, and it has emitted a price_cross_long event and a
\* golden_cross or death_cross.
C26_Witness ==
    /\ Scanning
    /\ scan.short_window < scan.long_window
    /\ \E i \in 1..scan.idx :
         scan.rows[i].short_sma # None /\ scan.rows[i].long_sma = None
    /\ scan.previous_sma_diff # None
    /\ scan.previous_long_diff # None
    /\ \E a, b \in 1..Len(scan.events) :
         /\ scan.events[a].event_type \in {LongTypes[1], LongTypes[2]}
         /\ scan.events[b].event_type \in {SmaTypes[1], SmaTypes[2]}

\* Whether a scanned row strictly between rows i and k breaks a run of
\* events of one type of difference d: it has the event of the other type,
\* or the difference is 0 or undefined there.
Broken(i, k, d, other) ==
    \E m \in (i + 1)..(k - 1) :
       \/ Emitted(other, scan.rows[m].trade_date) = 1
       \/ ~Defined(scan.rows[m], d)
       \/ SignAt(scan.rows[m], d) = 0

\* C27: between two up events of one difference in a scan there is a down
\* event of that difference, a point where the difference is 0 or a point
\* where it is undefined; and the same between two down events, with an up
\* event.
C27_Alternation ==
    Scanning =>
      \A d \in Diffs : \A i, k \in 1..scan.idx :
        i < k =>
          /\ (/\ Emitted(UpType(d), scan.rows[i].trade_date) = 1
              /\ Emitted(UpType(d), scan.rows[k].trade_date) = 1)
               => Broken(i, k, d, DownType(d))
          /\ (/\ Emitted(DownType(d), scan.rows[i].trade_date) = 1
              /\ Emitted(DownType(d), scan.rows[k].trade_date) = 1)
               => Broken(i, k, d, UpType(d))

\* A scan with two up events of one difference and only a tie between
\* them: the difference is defined at every point between, and no down
\* event was emitted there.
C27_Witness ==
    /\ Scanning
    /\ \E d \in Diffs : \E i, k \in 1..scan.idx :
         /\ i < k
         /\ Emitted(UpType(d), scan.rows[i].trade_date) = 1
         /\ Emitted(UpType(d), scan.rows[k].trade_date) = 1
         /\ \A m \in (i + 1)..(k - 1) :
              /\ Defined(scan.rows[m], d)
              /\ Emitted(DownType(d), scan.rows[m].trade_date) = 0

(***************************************************************************)
(* Properties of the job, over Spec.                                       *)
(***************************************************************************)
StoreKeysOf(s) == {Key(r) : r \in {x \in store : x.symbol = s}}

\* The keys one scan of the symbol's whole price history yields.
FullScanKeys(s, short_window, long_window) ==
    SeqKeys(compute_sma_events(fetch_price_history(prices, s, None), s,
                               short_window, long_window))

FilterByKeys(events, keys) ==
    LET Absent(e) == Key(e) \notin keys
    IN  SelectSeq(events, Absent)

\* C1: a run that follows a completed run with the same windows over the
\* unchanged prices passes no event to upsert_events and leaves the key
\* set of the store as it loaded it.
C1_Idempotent ==
    \A j \in Jobs :
      job[j].repeat =>
        /\ job[j].pc # "upsert"
        /\ job[j].passed = << >>
        /\ job[j].total_inserted = 0
        /\ KeySet(store) = job[j].loaded

\* A second run that finished, found events stored and recomputed some.
C1_Witness ==
    \E j \in Jobs :
      /\ job[j].repeat
      /\ job[j].pc = "done"
      /\ job[j].loaded # {}
      /\ job[j].candidates # << >>

\* C2 (as claimed): after a completed run, when every stored row was
\* written with the windows of that run, the stored keys of each symbol
\* are the keys one scan of its whole price history yields.
C2_ResumeEqualsFullScan ==
    \A j \in Jobs :
      (/\ job[j].pc = "done"
       /\ \A r \in store : /\ r.short_window = job[j].short_window
                           /\ r.long_window = job[j].long_window)
        => \A s \in Symbols :
             StoreKeysOf(s) = FullScanKeys(s, job[j].short_window,
                                           job[j].long_window)

\* C3 (as claimed): in a resumed run, every point dated at or after the
\* latest event date D of a symbol that has a long_sma in the scan of the
\* whole history has one in the frame read from the floor.
C3_LongSmaWarm ==
    \A j \in Jobs :
      job[j].pc = "loop" =>
        \A s \in Symbols :
          IsSome(job[j].latest_event_dates[s]) =>
            LET sw == job[j].short_window
                lw == job[j].long_window
                D == Val(job[j].latest_event_dates[s])
                full == Annotate(fetch_price_history(prices, s, None), sw, lw)
                part == Annotate(fetch_price_history(prices, s,
                           start_date_filter(Some(D), sw, lw)), sw, lw)
            IN  \A i \in 1..Len(full) :
                  (full[i].trade_date >= D /\ IsSome(full[i].long_sma)) =>
                    \E k \in 1..Len(part) :
                       /\ part[k].trade_date = full[i].trade_date
                       /\ IsSome(part[k].long_sma)

\* C7: no two rows of the store share the key (symbol, event_date,
\* event_type), and no two candidates of one scan do.
C7_UniqueKeys ==
    /\ \A r1, r2 \in store : Key(r1) = Key(r2) => r1 = r2
    /\ \A j \in Jobs :
         \A a, b \in 1..Len(job[j].candidates) :
            a # b => Key(job[j].candidates[a]) # Key(job[j].candidates[b])

\* A later run found events stored, wrote new ones, and the store holds
\* two events of one symbol and date.
C7_Witness ==
    /\ \E j \in Jobs : /\ job[j].pc = "done"
                       /\ job[j].loaded # {}
                       /\ job[j].passed # << >>
                       /\ Len(job[j].candidates) >= 2
    /\ \E r1, r2 \in store : /\ r1.symbol = r2.symbol
                             /\ r1.event_date = r2.event_date
                             /\ r1.event_type # r2.event_type

\* C8: what the writer receives for a symbol is exactly the candidates
\* whose key is absent from the key set loaded at the start of the run,
\* and once the call returned every row passed is stored.
C8_Dedup ==
    \A j \in Jobs :
      /\ job[j].new_events = FilterByKeys(job[j].candidates, job[j].loaded)
      /\ job[j].pc \in {"loop", "done"} =>
           SeqKeys(job[j].passed) \subseteq KeySet(store)

\* A symbol whose scan recomputed a stored key and found new events on
\* another date, which were written.
C8_Witness ==
    \E j \in Jobs :
      /\ job[j].pc = "loop"
      /\ job[j].new_events # << >>
      /\ \E a \in 1..Len(job[j].candidates) :
           /\ Key(job[j].candidates[a]) \in job[j].loaded
           /\ \A b \in 1..Len(job[j].new_events) :
                job[j].new_events[b].event_date # job[j].candidates[a].event_date
      /\ SeqKeys(job[j].new_events) \subseteq KeySet(store)

NewEventsOf(j, symbol) ==
    LET r == job[j]
        start == start_date_filter(r.latest_event_dates[symbol],
                                   r.short_window, r.long_window)
        frame == fetch_price_history(prices, symbol, start)
    IN  NewEvents(compute_sma_events(frame, symbol, r.short_window,
                                     r.long_window),
                  r.existing_events)

\* C11 (as claimed): when the read of one symbol's price history has
\* failed, the run has not ended there: it has skipped the symbol, so once
\* the run is over the new events of the symbols after it are recorded.
C11_ReadFailureSkipped ==
    \A j \in Jobs :
      job[j].pc = "read_failed" =>
        \A n \in (job[j].i + 1)..Len(job[j].symbols) :
           SeqKeys(NewEventsOf(j, job[j].symbols[n])) \subseteq KeySet(store)

\* C13: a run started with short_window <= 0, long_window <= 0 or
\* short_window >= long_window ends in the error at once: the step creates
\* no table, reads no symbol, loads no key and writes no event, and neither
\* does anything after it until the process is gone.
C13_InvalidFailsFast ==
    [][\A j \in Jobs :
         /\ (/\ job[j].pc = "idle"
             /\ job'[j].pc # "idle"
             /\ \/ job'[j].short_window <= 0
                \/ job'[j].long_window <= 0
                \/ job'[j].short_window >= job'[j].long_window)
            => /\ job'[j].pc = "error"
               /\ tables' = tables
               /\ store' = store
               /\ job'[j].symbols = << >>
               /\ job'[j].loaded = {}
               /\ job'[j].passed = << >>
         /\ job[j].pc = "error"
            => /\ job'[j].pc \in {"error", "idle"}
               /\ tables' = tables
               /\ store' = store]_vars

\* The first run against a database with prices was started with
\* short_window >= long_window > 0: it ended in the error and sma_events
\* does not exist.
C13_Witness ==
    \E j \in Jobs :
      /\ job[j].pc = "error"
      /\ job[j].short_window >= job[j].long_window
      /\ job[j].long_window > 0
      /\ prices["AAA"] # << >>
      /\ tables = {}

\* The step in which run j reads and scans its next symbol.
Reads(j) ==
    /\ job[j].pc = "loop"
    /\ job[j].i <= Len(job[j].symbols)
    /\ job'[j] # job[j]
    /\ job'[j].pc \in {"loop", "upsert"}

\* C14: a symbol with a recorded latest event date D is read from
\* D - (max(short_window, long_window) + 5) on: the frame is the symbol's
\* closes with trade_date at or after that date; a symbol with no recorded
\* event is read with no floor: the frame is all its closes.
C14_ResumptionFloor ==
    [][\A j \in Jobs :
         Reads(j) =>
           LET s == job[j].symbols[job[j].i]
               dates == {k[2] : k \in {x \in job[j].existing_events : x[1] = s}}
               closes == {n \in 1..Len(prices[s]) : prices[s][n].close # None}
               read == {job'[j].frame[n].trade_date : n \in 1..Len(job'[j].frame)}
           IN  IF dates = {}
               THEN /\ job'[j].start_date = None
                    /\ read = {prices[s][n].trade_date : n \in closes}
               ELSE \E D \in dates :
                      /\ \A d \in dates : d <= D
                      /\ LET m == IF job[j].short_window > job[j].long_window
                                  THEN job[j].short_window
                                  ELSE job[j].long_window
                         IN  /\ job'[j].start_date = Some(D - (m + 5))
                             /\ read = {prices[s][n].trade_date :
                                          n \in {c \in closes :
                                             prices[s][c].trade_date >= D - (m + 5)}}]_vars

\* A resumed run has read its last symbol from the floor, which left out
\* earlier closes of the symbol.
C14_Witness ==
    \E j \in Jobs :
      /\ job[j].pc = "loop"
      /\ job[j].i > Len(job[j].symbols)
      /\ job[j].loaded # {}
      /\ job[j].start_date # None
      /\ job[j].frame # << >>
      /\ \E n \in 1..Len(prices["BBB"]) :
           /\ prices["BBB"][n].close # None
           /\ prices["BBB"][n].trade_date < Val(job[j].start_date)

\* C18: no step of a run removes a key from the store, and at every point
\* of a run the store holds every key the run found when it loaded.
C18_NeverDeleted ==
    [][/\ KeySet(store) \subseteq KeySet(store')
       /\ \A j \in Jobs : job'[j].loaded \subseteq KeySet(store')]_vars

\* A run that found events stored has completed and has added events.
C18_Witness ==
    \E j \in Jobs :
      /\ job[j].pc = "done"
      /\ job[j].total_inserted > 0
      /\ job[j].loaded # {}
      /\ job[j].loaded \subseteq KeySet(store)
      /\ job[j].loaded # KeySet(store)

\* The keys run j has committed so far: the events it passed to
\* upsert_events, but for those of a call that has not returned.
Written(j) ==
    IF job[j].pc \in {"upsert", "failed"}
    THEN SeqKeys(job[j].passed) \ SeqKeys(job[j].new_events)
    ELSE SeqKeys(job[j].passed)

\* C20: at every point of a run from its load on, the existing-key set is
\* the keys loaded and the keys the run has committed, which are in the
\* store, and latest_event_dates of each symbol is the greatest event date
\* among the symbol's keys in that set, absent when there is none; the
\* keys of a call in progress or failed are not in the set.
C20_IndexConsistent ==
    \A j \in Jobs :
      /\ job[j].existing_events = job[j].loaded \cup Written(j)
      /\ Written(j) \subseteq KeySet(store)
      /\ \A s \in Symbols :
           LET ds == {k[2] : k \in {x \in job[j].existing_events : x[1] = s}}
           IN  IF ds = {}
               THEN job[j].latest_event_dates[s] = None
               ELSE /\ job[j].latest_event_dates[s] # None
                    /\ Val(job[j].latest_event_dates[s]) \in ds
                    /\ \A d \in ds : d <= Val(job[j].latest_event_dates[s])
      /\ job[j].pc \in {"upsert", "failed"} =>
           SeqKeys(job[j].new_events) \cap job[j].existing_events = {}

\* A resumed run has committed the batches of its symbols, which moved the
\* latest event date of a symbol past the loaded one, and a later call of
\* the run has failed.
C20_Witness ==
    \E j \in Jobs :
      /\ job[j].pc = "failed"
      /\ job[j].loaded # {}
      /\ job[j].total_inserted > 0
      /\ \E s \in Symbols :
           /\ job[j].latest_event_dates[s] # None
           /\ \E k \in job[j].loaded : k[1] = s
           /\ \A k \in job[j].loaded :
                k[1] = s => k[2] < Val(job[j].latest_event_dates[s])

\* Whether a stored row has the symbol, date and type of an event.
SameEvent(r, e) ==
    /\ r.symbol = e.symbol
    /\ r.event_date = e.event_date
    /\ r.event_type = e.event_type

(***************************************************************************)
(* SpecConc: two runs of the job that overlap in time.  The prices are     *)
(* ingested before the runs start; each run takes its steps in any         *)
(* interleaving with the other's, and the database clock may have advanced *)
(* whenever a statement reads it.                                          *)
(***************************************************************************)
\* The days ingested before the runs: consecutive days on which the first
\* symbol closes at 1 or 2 and the second has no close.
ConcDays == {<<1, Some(1), None>>, <<1, Some(2), None>>}

\* The arguments of the overlapping runs: either pair of windows, and a
\* chunk size that puts most calls in one statement.
ConcArgs == RunWindows \X {3}

NextConc ==
    \/ \E d \in ConcDays : AppendDay(d[1], d[2], d[3])
    \/ \E j \in Jobs : \E a \in ConcArgs : Start(j, a[1], a[2])
    \/ \E j \in Jobs : ProcessSymbol(j)
    \/ \E j \in Jobs : \E t \in now..MaxClock : UpsertChunk(j, t)
    \/ \E j \in Jobs : UpsertCommit(j)
    \/ \E j \in Jobs : UpsertFail(j)
    \/ \E j \in Jobs : Finish(j)

SpecConc == Init /\ [][NextConc]_vars

(***************************************************************************)
(* Properties of overlapping runs, over SpecConc.                          *)
(***************************************************************************)
\* The step in which upsert_events of run j returns.
Returned(j) == job[j].pc = "upsert" /\ job'[j].pc = "loop"

\* The non-key columns the upsert assigns.
Assigned(r) ==
    <<r.short_window, r.long_window, r.close_price, r.short_sma, r.long_sma>>

\* C9: when upsert_events returns, each row it was given whose key was in
\* the store has overwritten short_window, long_window, close_price,
\* short_sma and long_sma of the stored row and left its created_at and
\* key unchanged; each row whose key was not in the store has been inserted
\* as a new row; every other row of the store is as it was.
C9_UpsertFrame ==
    [][\A j \in Jobs :
         Returned(j) =>
           /\ \A n \in 1..Len(job[j].pending) :
                LET e == job[j].pending[n]
                IN  IF Key(e) \in KeySet(store)
                    THEN \A old \in store :
                           Key(old) = Key(e) =>
                             \E new \in store' :
                               /\ Key(new) = Key(old)
                               /\ new.created_at = old.created_at
                               /\ Assigned(new) = Assigned(e)
                    ELSE e \in store'
           /\ \A old \in store :
                Key(old) \notin SeqKeys(job[j].pending) => old \in store'
           /\ Cardinality(store') =
                Cardinality(KeySet(store) \cup SeqKeys(job[j].pending))]_vars

\* A call has returned whose row met the row another run, with another long
\* window, had inserted earlier under the same key: the stored row has the
\* call's values and the other run's created_at.
C9_Witness ==
    \E j \in Jobs : \E j2 \in Jobs \ {j} :
      /\ job[j].pc = "loop"
      /\ job[j2].long_window # job[j].long_window
      /\ \E n \in 1..Len(job[j].pending) : \E m \in 1..Len(job[j2].pending) :
           LET e == job[j].pending[n]
               first == job[j2].pending[m]
           IN  /\ Key(first) = Key(e)
               /\ Assigned(first) # Assigned(e)
               /\ first.created_at < e.created_at
               /\ \E r \in store :
                    /\ Key(r) = Key(e)
                    /\ Assigned(r) = Assigned(e)
                    /\ r.created_at = first.created_at

\* C12: under every interleaving of two overlapping runs, no two rows of
\* the store share a key, a stored row keeps the created_at of its first
\* insert, and when both runs have completed the key set of the store is
\* the one the runs write alone: with the same windows, that of one run.
C12_ConcurrentRuns ==
    [][/\ \A r1, r2 \in store' : Key(r1) = Key(r2) => r1 = r2
       /\ \A r \in store :
            \E r2 \in store' : Key(r2) = Key(r) /\ r2.created_at = r.created_at
       /\ (\A j \in Jobs : job'[j].pc = "done") =>
             KeySet(store') =
               UNION {FullScanKeys(s, job'[j].short_window, job'[j].long_window) :
                        s \in Symbols, j \in Jobs}]_vars

\* Two runs with the same windows have both completed; each loaded the key
\* set before the other committed, so both wrote the same keys, at
\* different clock readings, and the store has the first one's.
C12_Witness ==
    /\ \A j \in Jobs : job[j].pc = "done" /\ job[j].loaded = {}
    /\ job["j1"].short_window = job["j2"].short_window
    /\ job["j1"].long_window = job["j2"].long_window
    /\ job["j1"].passed # << >>
    /\ SeqKeys(job["j1"].passed) = SeqKeys(job["j2"].passed)
    /\ \E n \in 1..Len(job["j1"].pending) : \E m \in 1..Len(job["j2"].pending) :
         /\ Key(job["j1"].pending[n]) = Key(job["j2"].pending[m])
         /\ job["j1"].pending[n].created_at < job["j2"].pending[m].created_at
         /\ job["j1"].pending[n] \in store

(***************************************************************************)
(* SpecOrder: runs of one job in which SELECT DISTINCT symbol, which has   *)
(* no ORDER BY, returns the symbols in any order.                          *)
(***************************************************************************)
\* The orders in which the symbols of the prices table can be returned.
Orders(tbl) ==
    LET present == {s \in Symbols : tbl[s] # << >>}
    IN  {o \in UNION {[1..n -> present] : n \in 0..Cardinality(present)} :
           /\ Len(o) = Cardinality(present)
           /\ \A a, b \in 1..Len(o) : a # b => o[a] # o[b]}

\* The job is started and the symbols come back in the given order.
StartInOrder(j, w, cs, order) ==
    /\ AtRest(j)
    /\ BeginWith(j, w, cs, FALSE, order)
    /\ UNCHANGED <<prices, store, now, scan, web>>

\* The days ingested: the next day, or a day after a long gap; the second
\* symbol closes opposite to the first.
OrderDays == {<<1, Some(1), Some(2)>>, <<LongGap, Some(2), Some(1)>>}

NextOrder ==
    \/ \E d \in OrderDays : AppendDay(d[1], d[2], d[3])
    \/ \E w \in RunWindows : \E order \in Orders(prices) :
          StartInOrder("j1", w, 2, order)
    \/ ProcessSymbol("j1")
    \/ UpsertChunk("j1", now)
    \/ UpsertCommit("j1")
    \/ Finish("j1")
    \/ Exit("j1")

SpecOrder == Init /\ [][NextOrder]_vars

\* The prices table with the rows of every symbol but s removed.
Only(s) == [x \in Symbols |-> IF x = s THEN prices[s] ELSE << >>]

\* The latest event date of symbol s among the keys run j loaded.
LoadedLatest(j, s) ==
    LET ds == {k[2] : k \in {x \in job[j].loaded : x[1] = s}}
    IN  IF ds = {} THEN None ELSE Some(CHOOSE m \in ds : \A d \in ds : d <= m)

\* C19 (as claimed): the candidates of a symbol are a function of its price
\* series and the windows alone.  A first run, with nothing stored, scans
\* the whole series, so that function is the scan of the whole series.
C19_SeriesAndWindowsOnly ==
    [][\A j \in Jobs :
         Reads(j) =>
           LET s == job[j].symbols[job[j].i]
           IN  job'[j].candidates =
                 compute_sma_events(fetch_price_history(Only(s), s, None), s,
                                    job[j].short_window, job[j].long_window)]_vars

\* C19 (amended): the candidates of a symbol are the scan, from absent
\* registers, of the symbol's own price series read from the floor of the
\* symbol's own latest event date among the keys loaded at the start of
\* the run, with the windows of the run: whatever the other symbols'
\* prices and events and wherever the symbol comes in the order.
C19_NoCrossSymbolState ==
    [][\A j \in Jobs :
         Reads(j) =>
           LET s == job[j].symbols[job[j].i]
               sw == job[j].short_window
               lw == job[j].long_window
               start == start_date_filter(LoadedLatest(j, s), sw, lw)
               rows == Annotate(fetch_price_history(Only(s), s, start), sw, lw)
           IN  job'[j].candidates =
                 IF rows = << >> THEN << >>
                 ELSE ScanRows([previous_short_diff |-> None,
                                previous_long_diff |-> None,
                                previous_sma_diff |-> None,
                                events |-> << >>],
                               rows, 1, s, sw, lw).events]_vars

\* A resumed run in which the first symbol of the table came second, after
\* the other symbol's new events were committed, and has candidates.
C19_Witness ==
    \E j \in Jobs :
      /\ job[j].pc = "upsert"
      /\ job[j].symbols = <<"BBB", "AAA">>
      /\ job[j].i = 2
      /\ job[j].loaded # {}
      /\ job[j].candidates # << >>
      /\ Len(job[j].passed) > Len(job[j].new_events)

\* Whether a loaded key is the symbol, date and type of an event or row.
KeyOf(k, e) == k[1] = e.symbol /\ k[2] = e.event_date /\ k[3] = e.event_type

\* C28 (as claimed): a run never writes over a row stored by a run with
\* other windows: when its upsert_events returns, every row of the store
\* with another long_window is as it was.
C28_NeverOverwrites ==
    [][\A j \in Jobs :
         Returned(j) =>
           \A r \in store :
              r.long_window # job[j].long_window => r \in store']_vars

\* C28 (amended): whatever the windows of the run and of the rows, no event
\* passed to upsert_events has the symbol, date and type of a key the run
\* loaded, a row whose key the run loaded is as it was when upsert_events
\* returns, and the floor of a read is taken from the latest event date of
\* the symbol among the loaded keys.
C28_WindowsIgnored ==
    [][\A j \in Jobs :
         /\ Reads(j) =>
              LET s == job[j].symbols[job[j].i]
                  ds == {k[2] : k \in {x \in job[j].loaded : x[1] = s}}
              IN  /\ \A n \in 1..Len(job'[j].new_events) :
                       \A k \in job[j].loaded : ~KeyOf(k, job'[j].new_events[n])
                  /\ ds = {} => job'[j].start_date = None
                  /\ ds # {} =>
                       \E D \in ds :
                          /\ \A d \in ds : d <= D
                          /\ job'[j].start_date =
                               Some(D - (job[j].long_window + 5))
         /\ Returned(j) =>
              \A r \in store :
                 (\E k \in job[j].loaded : KeyOf(k, r)) => r \in store']_vars

\* A run that loaded a key stored with other windows has read from the
\* floor, has computed a candidate with that symbol, date and type and
\* another long_sma, and has not passed it; the row is as it was stored.
C28_Witness ==
    \E j \in Jobs :
      /\ job[j].pc \in {"loop", "done"}
      /\ job[j].start_date # None
      /\ \E n \in 1..Len(job[j].candidates) : \E r \in store :
           /\ SameEvent(r, job[j].candidates[n])
           /\ \E k \in job[j].loaded : KeyOf(k, r)
           /\ r.long_window # job[j].long_window
           /\ r.long_sma # job[j].candidates[n].long_sma
           /\ \A m \in 1..Len(job[j].passed) : ~SameEvent(r, job[j].passed[m])

(***************************************************************************)
(* The job runner of src/src/webapp.py: run_service creates a job and      *)
(* starts a thread on execute_job; execute_job builds sys.argv, calls the  *)
(* service's main() and records the outcome; cleanup_old_jobs trims the    *)
(* jobs dict.                                                              *)
(*                                                                         *)
(* Every access of the code to jobs and job_counter is inside a            *)
(* `with job_lock:` block (lines 156, 332, 371, 400, 455, 464, 487, 493,   *)
(* 547, 568, 581), so a block is one step here.  sys.argv is read and      *)
(* written outside any lock, so each of its reads and writes is a step of  *)
(* its own.  Of a job_info the id, status, end_time and exit_code are kept; *)
(* the service, params, start_time and logs are read only by the routes    *)
(* that list jobs.  An end_time is the isoformat                            *)
(* string of datetime.now(); the strings compare as the instants do, and   *)
(* an instant is a reading of the clock, which moves on with every         *)
(* reading.                                                                *)
(***************************************************************************)
\* Line 98.
MAX_COMPLETED_JOBS == 10

\* Lines 99-104.
VALID_SERVICES ==
    {"fetch_prices", "daily_report", "thirty_day_report", "compute_sma_events"}

\* Requests handled in one behaviour of SpecWeb.
MaxRequests == 2

\* Line 334: f"job_{job_counter}".
JobId(n) == "job_" \o ToString(n)

JobIds == {JobId(n) : n \in 1..(MAX_COMPLETED_JOBS + MaxRequests)}

Min(a, b) == IF a <= b THEN a ELSE b

\* The JSON bodies posted to /services/run: a service name and its params.
\* The long window of the second is left at zero, so --long-window is not
\* passed; the service of the third is not one of VALID_SERVICES.
Requests ==
    { [service |-> "fetch_prices", params |-> ("date" :> "2024-01-02")],
      [service |-> "compute_sma_events",
       params |-> ("short_window" :> 1 @@ "long_window" :> 0)],
      [service |-> "import_to_mysql", params |-> EmptyDict] }

\* `'date' in params and params['date']`: the key is there and its value
\* is truthy (neither the empty string nor zero).
Given(params, key, falsy) ==
    key \in DOMAIN params /\ params[key] # falsy

\* Lines 512-529: the arguments of each sys.argv.extend call, in order.
Extensions(service_name, params) ==
    CASE service_name = "fetch_prices" ->
           IF Given(params, "date", "")
           THEN << <<"--date", params["date"]>> >> ELSE << >>
      [] service_name \in {"daily_report", "thirty_day_report"} ->
           IF Given(params, "report_date", "")
           THEN << <<"--report-date", params["report_date"]>> >> ELSE << >>
      [] service_name = "compute_sma_events" ->
           (IF Given(params, "short_window", 0)
            THEN << <<"--short-window", ToString(params["short_window"])>> >>
            ELSE << >>)
           \o
           (IF Given(params, "long_window", 0)
            THEN << <<"--long-window", ToString(params["long_window"])>> >>
            ELSE << >>)
      [] OTHER -> << >>

RECURSIVE Flatten(_)
Flatten(lists) ==
    IF lists = << >> THEN << >> ELSE Head(lists) \o Flatten(Tail(lists))

\* Lines 510-529 run by one thread alone: the list main() is meant to see.
BuildArgv(service_name, params) ==
    <<service_name>> \o Flatten(Extensions(service_name, params))

\* Lines 335-344: the job_info of a new job.
NewJob(job_id) ==
    [id |-> job_id, status |-> "running", end_time |-> None,
     exit_code |-> None]

\* The threads that run execute_job at one time.
Workers == {"w1", "w2"}

\* No execute_job is running on the thread.
IdleThread ==
    [pc |-> "idle", job_id |-> "", service_name |-> "", params |-> EmptyDict,
     original_argv |-> << >>, k |-> 0, parsed |-> None, exc |-> None]

\* The locals of execute_job(job_id, service_name, params) at its start.
NewThread(job_id, req) ==
    [IdleThread EXCEPT !.pc = "start", !.job_id = job_id,
                       !.service_name = req.service, !.params = req.params]

\* The three assignments of lines 494-496, 548-550, 569-571 and 582-584.
Finished(js, job_id, status, exit_code, t) ==
    [js EXCEPT ![job_id].status = status,
               ![job_id].exit_code = exit_code,
               ![job_id].end_time = Some(t)]

\* Lines 158-165.
running_jobs(js) == {id \in DOMAIN js : js[id].status = "running"}

completed_jobs(js) == {id \in DOMAIN js : js[id].status # "running"}

\* The order of lines 169-172 with reverse = False.
OldestFirst(js, a, b) == Val(js[a].end_time) < Val(js[b].end_time)

\* Lines 169-172: the order of the sort, latest end_time first; a comes
\* before b.  No two end_times are equal, each being a reading of its own
\* of the clock.
NewestFirst(js, a, b) == Val(js[a].end_time) > Val(js[b].end_time)

\* The place of a job in the sorted list completed_jobs, from 1.
Place(js, id) ==
    1 + Cardinality({o \in completed_jobs(js) : NewestFirst(js, o, id)})

\* Lines 156-180: the running jobs stay, and of the others those of
\* completed_jobs[:MAX_COMPLETED_JOBS], the first MAX_COMPLETED_JOBS places.
cleanup_old_jobs(js) ==
    LET jobs_to_keep ==
            {id \in completed_jobs(js) : Place(js, id) <= MAX_COMPLETED_JOBS}
    IN  [id \in running_jobs(js) \cup jobs_to_keep |-> js[id]]

\* Lines 307-359.  A service name outside VALID_SERVICES is answered with 400
\* and nothing else happens; otherwise the job is created and a thread is
\* started on execute_job.
run_service(req) ==
    /\ requests < MaxRequests
    /\ requests' = requests + 1
    /\ IF req.service \notin VALID_SERVICES
       THEN UNCHANGED <<jobs, job_counter, threads>>
       ELSE /\ \E w \in Workers : threads[w].pc = "idle"
            /\ LET job_id == JobId(job_counter + 1)
                   w == CHOOSE w \in Workers : threads[w].pc = "idle"
               IN  /\ job_counter' = job_counter + 1
                   /\ jobs' = (job_id :> NewJob(job_id)) @@ jobs
                   /\ threads' = [threads EXCEPT ![w] = NewThread(job_id, req)]
    /\ UNCHANGED <<sys_argv, environ, clock, engine>>

\* Lines 485-505.  fetch_prices without POLYGON_API_KEY is marked failed
\* and execute_job returns, without a call of cleanup_old_jobs.  Otherwise
\* original_argv = sys.argv.copy().
SaveArgv(w) ==
    /\ threads[w].pc = "start"
    /\ IF threads[w].service_name = "fetch_prices"
          /\ "POLYGON_API_KEY" \notin environ
       THEN /\ jobs' = Finished(jobs, threads[w].job_id, "failed", Some(1),
                                clock)
            /\ clock' = clock + 1
            /\ threads' = [threads EXCEPT ![w] = IdleThread]
       ELSE /\ threads' = [threads EXCEPT ![w].pc = "set",
                                          ![w].original_argv = sys_argv]
            /\ UNCHANGED <<jobs, clock>>
    /\ UNCHANGED <<job_counter, sys_argv, environ, requests, engine>>

\* Line 510: sys.argv = [service_name].
SetArgv(w) ==
    /\ threads[w].pc = "set"
    /\ sys_argv' = <<threads[w].service_name>>
    /\ LET ext == Extensions(threads[w].service_name, threads[w].params) IN
       threads' = [threads EXCEPT
                     ![w].k = IF ext = << >> THEN 0 ELSE 1,
                     ![w].pc = IF ext = << >> THEN "main" ELSE "extend"]
    /\ UNCHANGED <<jobs, job_counter, environ, clock, requests, engine>>

\* Lines 515-529: one sys.argv.extend call, on the list sys.argv names now.
ExtendArgv(w) ==
    /\ threads[w].pc = "extend"
    /\ LET ext == Extensions(threads[w].service_name, threads[w].params)
           last == threads[w].k = Len(ext)
       IN  /\ sys_argv' = sys_argv \o ext[threads[w].k]
           /\ threads' = [threads EXCEPT
                            ![w].k = IF last THEN 0 ELSE @ + 1,
                            ![w].pc = IF last THEN "main" ELSE "extend"]
    /\ UNCHANGED <<jobs, job_counter, environ, clock, requests, engine>>

\* Lines 533-541 and the parse_args() that opens every main()
\* (sma_events.py line 307): argparse reads sys.argv[1:] when it is called.
MainParse(w) ==
    /\ threads[w].pc = "main"
    /\ threads' = [threads EXCEPT ![w].pc = "in_main",
                                  ![w].parsed = Some(Tail(sys_argv))]
    /\ UNCHANGED <<jobs, job_counter, sys_argv, environ, clock, requests, engine>>

\* Lines 543-551: main() returned; the job is marked completed.
MainReturn(w) ==
    /\ threads[w].pc = "in_main"
    /\ jobs' = Finished(jobs, threads[w].job_id, "completed", Some(0), clock)
    /\ clock' = clock + 1
    /\ threads' = [threads EXCEPT ![w].pc = "cleanup", ![w].parsed = None]
    /\ UNCHANGED <<job_counter, sys_argv, environ, requests, engine>>

\* The codes a service leaves with: that of sys.exit() and the 2 of
\* argparse's error().
ExitCodes == {None, Some(2)}

\* What main() raises: SystemExit(code), or an Exception as the ValueError
\* of sma_events.py lines 310-313.
Raised == {<<"SystemExit", code>> : code \in ExitCodes} \cup {<<"Exception">>}

\* main() raised; on the way to the handler the finally clause of lines
\* 556-558 restores sys.argv.
MainRaise(w, exc) ==
    /\ threads[w].pc = "in_main"
    /\ sys_argv' = threads[w].original_argv
    /\ threads' = [threads EXCEPT ![w].pc = "except", ![w].parsed = None,
                                  ![w].original_argv = << >>,
                                  ![w].exc = exc]
    /\ UNCHANGED <<jobs, job_counter, environ, clock, requests, engine>>

\* Lines 554, 575 and 592: cleanup_old_jobs().  After line 554 the finally
\* clause follows; after the handlers execute_job ends.
Cleanup(w) ==
    /\ threads[w].pc = "cleanup"
    /\ jobs' = cleanup_old_jobs(jobs)
    /\ IF threads[w].exc = None
       THEN threads' = [threads EXCEPT ![w].pc = "restore"]
       ELSE threads' = [threads EXCEPT ![w] = IdleThread]
    /\ UNCHANGED <<job_counter, sys_argv, environ, clock, requests, engine>>

\* Lines 556-558: the finally clause after main() returned.
RestoreArgv(w) ==
    /\ threads[w].pc = "restore"
    /\ sys_argv' = threads[w].original_argv
    /\ threads' = [threads EXCEPT ![w] = IdleThread]
    /\ UNCHANGED <<jobs, job_counter, environ, clock, requests, engine>>

\* Line 566 with e.code taken as it is.
ExitCodeRaw(code) == code

\* Line 566: exit_code = e.code if e.code is not None else 0.
ExitCodeOf(code) == IF code = None THEN Some(0) ELSE code

\* Lines 560-572: except SystemExit.
ExceptSystemExit(w) ==
    /\ threads[w].pc = "except"
    /\ threads[w].exc[1] = "SystemExit"
    /\ LET exit_code == ExitCodeOf(threads[w].exc[2]) IN
       jobs' = Finished(jobs, threads[w].job_id,
                        IF exit_code = Some(0) THEN "completed" ELSE "failed",
                        exit_code, clock)
    /\ clock' = clock + 1
    /\ threads' = [threads EXCEPT ![w].pc = "cleanup"]
    /\ UNCHANGED <<job_counter, sys_argv, environ, requests, engine>>

\* Lines 577-589: except Exception.
ExceptException(w) ==
    /\ threads[w].pc = "except"
    /\ threads[w].exc[1] = "Exception"
    /\ jobs' = Finished(jobs, threads[w].job_id, "failed", Some(1), clock)
    /\ clock' = clock + 1
    /\ threads' = [threads EXCEPT ![w].pc = "cleanup"]
    /\ UNCHANGED <<job_counter, sys_argv, environ, requests, engine>>

\* The steps of execute_job on one thread.
execute_job(w) ==
    \/ SaveArgv(w)
    \/ SetArgv(w)
    \/ ExtendArgv(w)
    \/ MainParse(w)
    \/ MainReturn(w)
    \/ \E exc \in Raised : MainRaise(w, exc)
    \/ Cleanup(w)
    \/ RestoreArgv(w)
    \/ ExceptSystemExit(w)
    \/ ExceptException(w)

\* The job_info of the n-th of the jobs that ran before, one after another,
\* each with a main() that returned.
PriorJob(n) ==
    [id |-> JobId(n), status |-> "completed", end_time |-> Some(n - 1),
     exit_code |-> Some(0)]

\* The application has served no job yet, or as many as it keeps.
PriorRuns == {0, MAX_COMPLETED_JOBS}

\* Lines 78-81: POLYGON_API_KEY is in the environment or in config.yaml,
\* or in neither.
Environments == {{}, {"POLYGON_API_KEY"}}

InitWeb ==
    /\ prices = [s \in Symbols |-> << >>]
    /\ store = {}
    /\ now = 0
    /\ job = [j \in Jobs |-> IdleJob]
    /\ scan = NoScan
    /\ tables = {}
    /\ sys_argv = OriginalArgv
    /\ threads = [w \in Workers |-> IdleThread]
    /\ requests = 0
    /\ environ \in Environments
    /\ \E n \in PriorRuns :
         /\ job_counter = n
         /\ clock = n
         /\ jobs = [id \in {JobId(m) : m \in 1..n} |->
                      PriorJob(CHOOSE m \in 1..n : JobId(m) = id)]

NextWeb ==
    \/ \E req \in Requests : run_service(req)
    \/ \E w \in Workers : SaveArgv(w)
    \/ \E w \in Workers : SetArgv(w)
    \/ \E w \in Workers : ExtendArgv(w)
    \/ \E w \in Workers : MainParse(w)
    \/ \E w \in Workers : MainReturn(w)
    \/ \E w \in Workers : \E exc \in Raised : MainRaise(w, exc)
    \/ \E w \in Workers : Cleanup(w)
    \/ \E w \in Workers : RestoreArgv(w)
    \/ \E w \in Workers : ExceptSystemExit(w)
    \/ \E w \in Workers : ExceptException(w)

SpecWeb == InitWeb /\ [][NextWeb]_vars

\* The requests for fetch_prices, the service whose jobs can take every
\* path of execute_job, that of the missing API key included.
LiveRequests == {req \in Requests : req.service = "fetch_prices"}

NextWebLive ==
    \/ \E req \in LiveRequests : run_service(req)
    \/ \E w \in Workers : SaveArgv(w)
    \/ \E w \in Workers : SetArgv(w)
    \/ \E w \in Workers : ExtendArgv(w)
    \/ \E w \in Workers : MainParse(w)
    \/ \E w \in Workers : MainReturn(w)
    \/ \E w \in Workers : \E exc \in Raised : MainRaise(w, exc)
    \/ \E w \in Workers : Cleanup(w)
    \/ \E w \in Workers : RestoreArgv(w)
    \/ \E w \in Workers : ExceptSystemExit(w)
    \/ \E w \in Workers : ExceptException(w)

\* Every thread that runs execute_job keeps taking its steps, and a main()
\* that was called returns or raises.
SpecWebLive ==
    InitWeb /\ [][NextWebLive]_vars /\ \A w \in Workers : WF_vars(execute_job(w))

(***************************************************************************)
(* Properties of the job runner.                                           *)
(***************************************************************************)
\* A thread makes its call of cleanup_old_jobs in this step.
CleanupStep(w) == threads[w].pc = "cleanup" /\ threads'[w].pc # "cleanup"

\* C22: no step removes a job whose status is 'running', whatever run_service
\* and the other threads do around it; and a call of cleanup_old_jobs leaves
\* the running jobs as they are and keeps, of the other jobs, all when they
\* are at most MAX_COMPLETED_JOBS and otherwise exactly MAX_COMPLETED_JOBS,
\* each kept one with a later end_time than each removed one, and changes
\* no job it keeps.
C22_CleanupKeeps ==
    [][/\ \A id \in running_jobs(jobs) : id \in DOMAIN jobs'
       /\ \A w \in Workers : CleanupStep(w) =>
            LET before == completed_jobs(jobs)
                kept == completed_jobs(jobs')
            IN  /\ running_jobs(jobs') = running_jobs(jobs)
                /\ kept \subseteq before
                /\ \A id \in DOMAIN jobs' : jobs'[id] = jobs[id]
                /\ Cardinality(kept) =
                     Min(MAX_COMPLETED_JOBS, Cardinality(before))
                /\ \A a \in kept : \A b \in before \ kept :
                     Val(jobs[a].end_time) > Val(jobs[b].end_time)
      ]_vars

\* A cleanup has removed the oldest job while another job was running:
\* MAX_COMPLETED_JOBS ended jobs are left beside the running one.
C22_Witness ==
    /\ running_jobs(jobs) # {}
    /\ Cardinality(completed_jobs(jobs)) = MAX_COMPLETED_JOBS
    /\ job_counter > MAX_COMPLETED_JOBS
    /\ JobId(1) \notin DOMAIN jobs
    /\ \A w \in Workers : threads[w].pc # "cleanup"

\* C23: the jobs dict holds at most MAX_COMPLETED_JOBS jobs whose status is
\* not 'running'.  The claim is for every state; it is stated here for the
\* states in which no thread stands between marking its job and its call
\* of cleanup_old_jobs, which the claim includes.
C23_AtMostMaxCompleted ==
    (\A w \in Workers : threads[w].pc # "cleanup") =>
        Cardinality(completed_jobs(jobs)) <= MAX_COMPLETED_JOBS

\* C24: once every started job has finished, sys.argv is what it was before
\* any job started.
C24_ArgvRestored ==
    (\A w \in Workers : threads[w].pc = "idle") => sys_argv = OriginalArgv

\* C29: the main() invoked for a job parses the argument list execute_job
\* built from that job's own service name and params.
C29_ArgumentsIsolated ==
    \A w \in Workers :
        threads[w].parsed # None =>
            Val(threads[w].parsed) =
                Tail(BuildArgv(threads[w].service_name, threads[w].params))

\* The ids run_service has given out.
Issued == {JobId(n) : n \in 1..job_counter}

HasEnded(js, id) == id \in DOMAIN js /\ js[id].status \in {"completed", "failed"}

\* The thread is in execute_job for a job whose status is 'running'.
RunsRunning(ths, js, w) ==
    /\ ths[w].pc # "idle"
    /\ ths[w].job_id \in DOMAIN js
    /\ js[ths[w].job_id].status = "running"

====
